---- MODULE Spec2Model ----
(***************************************************************************)
(* A model of the terminal quiz trainer of src/src/main.rs: the question   *)
(* variants and their ask() grading, the expansion of matching questions,  *)
(* and main() as a sequential state machine (chapter selection loop, size  *)
(* prompt, pool assembly, shuffle and range, quiz loop, summary).          *)
(*                                                                         *)
(* A Rust String is a sequence of characters.  An ASCII character is the   *)
(* one-character string of it, any other character the name of its code    *)
(* point ("U+00E9" and "U+00C9" are the small and the capital e with acute *)
(* accent).  Terms, definitions, prompts and options are only ever         *)
(* compared for equality or printed, so they are atomic strings.           *)
(***************************************************************************)
EXTENDS Integers, Sequences, FiniteSets

VARIABLES
    questions,          \* the parsed bank: the sequence questions.chapters
    pc,                 \* position of main()
    line,               \* the line read_line has put in the buffer, untrimmed;
                        \* empty again once the code has made its last use of
                        \* the String made from it
    selected_chapters,  \* set of chapter ids the selection loop broke with
    all_questions,      \* Vec<(Box<dyn Askable>, u32)>
    range_end,          \* range is 0..range_end
    score,
    question_count,
    is_correct,         \* is_correct of the ask() in progress (FALSE outside ask())
    presented,          \* history: the identities of the items ask() was called on
    graded_true,        \* history: how many ask() calls computed is_correct = true
    size_all,           \* history: the size input was "a" (no shuffle)
    printed             \* the last message written to stdout

vars == << questions, pc, line, selected_chapters, all_questions, range_end, score,
           question_count, is_correct, presented, graded_true, size_all, printed >>

-----------------------------------------------------------------------------
(* Bounds on the lines typed at each prompt.                               *)

MaxSelLen == 5
MaxSizeLen == 2
MaxAnsLen == 2

SelChars == {"1", "2", ",", "a", " "}
SizeChars == {"a", "0", "1", "2", "3", " "}
ChoiceChars == {"b", "B", " "}
IndexChars == {"0", "1", "2", "3", "x", " "}
TextChars == {"a", "A", "U+00E9", "U+00C9", " "}
AckLines == {<< >>, <<"a">>}

RECURSIVE StringsUpTo(_, _)
StringsUpTo(chars, n) ==
    IF n = 0 THEN {<< >>}
    ELSE LET shorter == StringsUpTo(chars, n - 1)
         IN  shorter \cup {Append(s, c) : s \in {t \in shorter : Len(t) = n - 1}, c \in chars}

-----------------------------------------------------------------------------
(* Strings: trim, ASCII case folding, integer parsing.                     *)

\* the White_Space characters that a typed line can hold
White == {" ", "\t", "\n", "\r"}

RECURSIVE TrimStart(_)
TrimStart(s) ==
    IF s = << >> THEN s
    ELSE IF Head(s) \in White THEN TrimStart(Tail(s)) ELSE s

RECURSIVE TrimEnd(_)
TrimEnd(s) ==
    IF s = << >> THEN s
    ELSE IF s[Len(s)] \in White THEN TrimEnd(SubSeq(s, 1, Len(s) - 1)) ELSE s

\* str::trim
Trim(s) == TrimEnd(TrimStart(s))

AsciiUpper == << "A", "B", "C", "D", "E", "F", "G", "H", "I", "J", "K", "L", "M",
                 "N", "O", "P", "Q", "R", "S", "T", "U", "V", "W", "X", "Y", "Z" >>
AsciiLower == << "a", "b", "c", "d", "e", "f", "g", "h", "i", "j", "k", "l", "m",
                 "n", "o", "p", "q", "r", "s", "t", "u", "v", "w", "x", "y", "z" >>

\* u8::to_ascii_lowercase, on characters: only A..Z are mapped
to_ascii_lowercase(c) ==
    IF \E i \in 1..26 : AsciiUpper[i] = c
    THEN AsciiLower[CHOOSE i \in 1..26 : AsciiUpper[i] = c]
    ELSE c

\* str::eq_ignore_ascii_case
eq_ignore_ascii_case(a, b) ==
    /\ Len(a) = Len(b)
    /\ \A i \in 1..Len(a) : to_ascii_lowercase(a[i]) = to_ascii_lowercase(b[i])

Digits == << "0", "1", "2", "3", "4", "5", "6", "7", "8", "9" >>

IsDigit(c) == \E i \in 1..10 : Digits[i] = c

DigitValue(c) == (CHOOSE i \in 1..10 : Digits[i] = c) - 1

RECURSIVE DecimalValue(_)
DecimalValue(s) ==
    IF s = << >> THEN 0
    ELSE 10 * DecimalValue(SubSeq(s, 1, Len(s) - 1)) + DigitValue(s[Len(s)])

\* The result of a failed parse (Err).
ParseErr == -1

\* str::parse for u32 and usize: an optional "+", then one or more decimal
\* digits, nothing else.  The bounded line lengths keep every value far
\* below the integer width, so the overflow error cannot arise here.
parse(s) ==
    LET body == IF s # << >> /\ Head(s) = "+" THEN Tail(s) ELSE s
    IN  IF body # << >> /\ \A i \in 1..Len(body) : IsDigit(body[i])
        THEN DecimalValue(body)
        ELSE ParseErr

\* an unwrap_or that falls back to 0 whatever the default
unwrap_or_zero(r, default) == IF r = ParseErr THEN 0 ELSE r

\* Result::unwrap_or
unwrap_or(r, default) == IF r = ParseErr THEN default ELSE r

\* get_user_input returns the line it read, trimmed.
get_user_input(l) == Trim(l)

-----------------------------------------------------------------------------
(* The question bank.  data.yaml is not part of the source tree, so the     *)
(* bank is drawn from a set of banks that the Deserialize types admit.      *)

MultipleChoiceQuestion(question, options, answer) ==
    [question |-> question, options |-> options, answer |-> answer]

MatchingPair(term, definition) == [term |-> term, definition |-> definition]

MatchingQuestion(question, pairs) == [question |-> question, pairs |-> pairs]

FillInTheBlankQuestion(question, answer) == [question |-> question, answer |-> answer]

SpellingQuestion(question, options, answer) ==
    [question |-> question, options |-> options, answer |-> answer]

Chapter(chapter, multiple_choice, matching, fill_in_the_blanks, spelling) ==
    [chapter |-> chapter, multiple_choice |-> multiple_choice, matching |-> matching,
     fill_in_the_blanks |-> fill_in_the_blanks, spelling |-> spelling]

Opts4 == << "o1", "o2", "o3", "o4" >>
Opts3 == << "s1", "s2", "s3" >>

\* answer selectors "b" and, to see the comparison from both sides, "B"
MCb == MultipleChoiceQuestion("mc-b", Opts4, "b")
MCB == MultipleChoiceQuestion("mc-B", Opts4, "B")

\* zero pairs; one pair; three pairs with different terms and definitions;
\* two pairs with one term; two pairs with one definition
M0 == MatchingQuestion("m0", << >>)
M1 == MatchingQuestion("m1", << MatchingPair("t1", "d1") >>)
M3 == MatchingQuestion("m3", << MatchingPair("t1", "d1"), MatchingPair("t2", "d2"),
                                MatchingPair("t3", "d3") >>)
MDupTerm == MatchingQuestion("mt", << MatchingPair("t1", "d1"), MatchingPair("t1", "d2") >>)
MDupDef == MatchingQuestion("md", << MatchingPair("t1", "d1"), MatchingPair("t2", "d1") >>)
M2 == MatchingQuestion("m2", << MatchingPair("t2", "d2"), MatchingPair("t1", "d1") >>)

\* expected answers: plain ASCII; a non-ASCII letter; surrounded by whitespace
Fa == FillInTheBlankQuestion("f-a", << "a" >>)
Fe == FillInTheBlankQuestion("f-e", << "U+00E9" >>)
SA == SpellingQuestion("s-A", Opts3, << "A" >>)
Sws == SpellingQuestion("s-ws", Opts3, << "a", " " >>)
SaA == SpellingQuestion("s-aA", Opts3, << "a", "A" >>)

\* two multiple-choice questions in chapter 1, one 3-pair matching question in
\* chapter 2; together five questions, the default question count
Bank1 == << Chapter(1, << MCb, MCB >>, << >>, << >>, << >>),
            Chapter(2, << >>, << M3 >>, << >>, << >>) >>
\* one chapter holding all four kinds
Bank2 == << Chapter(2, << MCB >>, << M2 >>, << Fa >>, << SaA >>) >>
\* matching questions only: one pair, no pairs, a repeated term
Bank3 == << Chapter(1, << >>, << M1, M0, MDupTerm >>, << >>, << >>) >>
\* chapters out of numeric order, several questions of one kind
Bank4 == << Chapter(2, << >>, << >>, << Fe, Fa >>, << >>),
            Chapter(1, << >>, << >>, << >>, << SA, Sws >>) >>
\* a repeated definition
Bank5 == << Chapter(1, << MCb >>, << MDupDef >>, << >>, << >>) >>
Banks == {Bank1, Bank2, Bank3, Bank4, Bank5}

-----------------------------------------------------------------------------
(* Matching expansion.                                                     *)

\* find from the back: the position of the last pair with that term
find_last(pairs, term) ==
    IF \E i \in 1..Len(pairs) : pairs[i].term = term
    THEN CHOOSE i \in 1..Len(pairs) :
            /\ pairs[i].term = term
            /\ \A j \in (i + 1)..Len(pairs) : pairs[j].term # term
    ELSE 0

\* find over the pairs after the first one
find_skip_first(pairs, term) ==
    IF \E i \in 2..Len(pairs) : pairs[i].term = term
    THEN CHOOSE i \in 2..Len(pairs) :
            /\ pairs[i].term = term
            /\ \A j \in 2..(i - 1) : pairs[j].term # term
    ELSE 0

\* find that stops at the first pair whatever its term
find_any(pairs, term) == IF Len(pairs) > 0 THEN 1 ELSE 0

\* pairs.iter().find(|p| p.term == term): the position of the first pair
\* with that term, 0 for None
find(pairs, term) ==
    IF \E i \in 1..Len(pairs) : pairs[i].term = term
    THEN CHOOSE i \in 1..Len(pairs) :
            /\ pairs[i].term = term
            /\ \A j \in 1..(i - 1) : pairs[j].term # term
    ELSE 0

\* SingleMatchingQuestion::new; unwrap() of None panics
new_panics(term, pairs) == find(pairs, term) = 0

SingleMatchingQuestion_new(term, pairs) ==
    LET correct_pair == pairs[find(pairs, term)]
        definition == [i \in 1..Len(pairs) |-> pairs[i].definition]
    IN  [term |-> correct_pair.term,
         definition |-> definition,
         correct_answer |-> correct_pair.definition]

-----------------------------------------------------------------------------
(* Pool assembly.  A pool entry is (Box<dyn Askable>, chapter): kind is the *)
(* dynamic type of the boxed question and q its fields.  id is the identity *)
(* of the boxed object: its position in the pool as first assembled.        *)

Boxed(kind, q, chapter) == [kind |-> kind, q |-> q, chapter |-> chapter]

\* matching.pairs.iter().map(|pair| SingleMatchingQuestion::new(pair.term, &matching.pairs))
ExpandMatching(matching, chapter) ==
    [i \in 1..Len(matching.pairs) |->
        Boxed("SingleMatchingQuestion",
              SingleMatchingQuestion_new(matching.pairs[i].term, matching.pairs),
              chapter)]

ExpandPanics(matching) ==
    \E i \in 1..Len(matching.pairs) : new_panics(matching.pairs[i].term, matching.pairs)

RECURSIVE ExpandAll(_, _)
ExpandAll(matchings, chapter) ==
    IF matchings = << >> THEN << >>
    ELSE ExpandMatching(Head(matchings), chapter) \o ExpandAll(Tail(matchings), chapter)

\* the loop body with the fill-in-the-blank questions ahead of the matching ones
ChapterItems_fill_first(ch) ==
    [i \in 1..Len(ch.multiple_choice) |->
        Boxed("MultipleChoiceQuestion", ch.multiple_choice[i], ch.chapter)]
    \o [i \in 1..Len(ch.fill_in_the_blanks) |->
        Boxed("FillInTheBlankQuestion", ch.fill_in_the_blanks[i], ch.chapter)]
    \o ExpandAll(ch.matching, ch.chapter)
    \o [i \in 1..Len(ch.spelling) |->
        Boxed("SpellingQuestion", ch.spelling[i], ch.chapter)]

\* the body of the loop over questions.chapters for one selected chapter
ChapterItems(ch) ==
    [i \in 1..Len(ch.multiple_choice) |->
        Boxed("MultipleChoiceQuestion", ch.multiple_choice[i], ch.chapter)]
    \o ExpandAll(ch.matching, ch.chapter)
    \o [i \in 1..Len(ch.fill_in_the_blanks) |->
        Boxed("FillInTheBlankQuestion", ch.fill_in_the_blanks[i], ch.chapter)]
    \o [i \in 1..Len(ch.spelling) |->
        Boxed("SpellingQuestion", ch.spelling[i], ch.chapter)]

RECURSIVE Assemble_by_id(_, _)
\* a loop over the selected ids in ascending order instead of over the bank
Assemble_by_id(chapters, selected) ==
    IF selected = {} THEN << >>
    ELSE LET id == CHOOSE x \in selected : \A y \in selected : x <= y
             OfId[k \in 0..Len(chapters)] ==
                IF k = 0 THEN << >>
                ELSE OfId[k - 1] \o (IF chapters[k].chapter = id
                                     THEN ChapterItems(chapters[k]) ELSE << >>)
         IN  OfId[Len(chapters)] \o Assemble_by_id(chapters, selected \ {id})

RECURSIVE Assemble_every_chapter(_, _)
\* the loop over the chapters without the test of the selection
Assemble_every_chapter(chapters, selected) ==
    IF chapters = << >> THEN << >>
    ELSE ChapterItems(Head(chapters)) \o Assemble_every_chapter(Tail(chapters), selected)

RECURSIVE Assemble(_, _)
Assemble(chapters, selected) ==
    IF chapters = << >> THEN << >>
    ELSE (IF Head(chapters).chapter \in selected THEN ChapterItems(Head(chapters)) ELSE << >>)
         \o Assemble(Tail(chapters), selected)

AssemblePanics(chapters, selected) ==
    \E c \in 1..Len(chapters) :
        /\ chapters[c].chapter \in selected
        /\ \E m \in 1..Len(chapters[c].matching) : ExpandPanics(chapters[c].matching[m])

WithIds(items) ==
    [i \in 1..Len(items) |->
        [kind |-> items[i].kind, q |-> items[i].q, chapter |-> items[i].chapter, id |-> i]]

\* a shuffle that draws every position independently
Shuffles_with_repetition(v) ==
    LET n == Len(v)
    IN  {[i \in 1..n |-> v[p[i]]] : p \in [1..n -> 1..n]}

\* every order SliceRandom::shuffle can leave the vector in
Shuffles(v) ==
    LET n == Len(v)
        perms == {p \in [1..n -> 1..n] : \A i, j \in 1..n : p[i] = p[j] => i = j}
    IN  {[i \in 1..n |-> v[p[i]]] : p \in perms}

-----------------------------------------------------------------------------
(* ask(): the grading of each variant for the line the user types.         *)

\* usize::MAX of the target (2^64 - 1 or 2^32 - 1).  The model takes the
\* largest integer TLC represents; all that grading uses of it is that no
\* vector is that long.
UsizeMax == 2147483647

\* a comparison that ignores case
ask_MultipleChoiceQuestion_ignore_case(q, l) ==
    eq_ignore_ascii_case(get_user_input(l), << q.answer >>)

\* answer == self.answer.to_string()
ask_MultipleChoiceQuestion(q, l) == get_user_input(l) = << q.answer >>

\* get_user_input(..).trim().parse().unwrap_or(0)
MatchingAnswer(l) == unwrap_or(parse(Trim(get_user_input(l))), 0)

\* answer - 1 on usize.  0 - 1 panics in a build with overflow checks and
\* wraps to usize::MAX in a build without: SubPanics says the panic is a
\* possible outcome, wrapping_sub1 is the other outcome.
SubPanics(answer) == answer = 0

wrapping_sub1(answer) == IF answer = 0 THEN UsizeMax ELSE answer - 1

\* a lookup that counts positions from 1
get_from_one(v, index) == IF 1 <= index /\ index <= Len(v) THEN << v[index] >> ELSE << >>

\* slice::get with a 0-based index: Some(&v[index]) or None, as a sequence
\* of at most one element
get(v, index) == IF index < Len(v) THEN << v[index + 1] >> ELSE << >>

\* self.definition.get(answer - 1) == Some(&self.correct_answer)
ask_SingleMatchingQuestion(q, l) ==
    get(q.definition, wrapping_sub1(MatchingAnswer(l))) = << q.correct_answer >>

ask_FillInTheBlankQuestion(q, l) == eq_ignore_ascii_case(get_user_input(l), q.answer)

\* a comparison that does not ignore case
ask_SpellingQuestion_exact(q, l) == get_user_input(l) = q.answer

ask_SpellingQuestion(q, l) == eq_ignore_ascii_case(get_user_input(l), q.answer)

\* dynamic dispatch of question.0.ask(): the is_correct it computes
ask(item, l) ==
    CASE item.kind = "MultipleChoiceQuestion" -> ask_MultipleChoiceQuestion(item.q, l)
      [] item.kind = "SingleMatchingQuestion" -> ask_SingleMatchingQuestion(item.q, l)
      [] item.kind = "FillInTheBlankQuestion" -> ask_FillInTheBlankQuestion(item.q, l)
      [] item.kind = "SpellingQuestion" -> ask_SpellingQuestion(item.q, l)

\* ask() can panic instead of returning
ask_may_panic(item, l) ==
    item.kind = "SingleMatchingQuestion" /\ SubPanics(MatchingAnswer(l))

\* the lines tried as an answer to an item of each kind
AnswerLines(kind) ==
    CASE kind = "MultipleChoiceQuestion" -> StringsUpTo(ChoiceChars, MaxAnsLen)
      [] kind = "SingleMatchingQuestion" -> StringsUpTo(IndexChars, MaxAnsLen)
      [] OTHER -> StringsUpTo(TextChars, MaxAnsLen)

-----------------------------------------------------------------------------
(* Chapter selection.                                                      *)

available_chapters == {questions[c].chapter : c \in 1..Len(questions)}

\* str::split(','): the pieces between commas, empty pieces included
RECURSIVE split(_)
split(s) ==
    IF \E i \in 1..Len(s) : s[i] = ","
    THEN LET i == CHOOSE k \in 1..Len(s) : s[k] = "," /\ \A j \in 1..(k - 1) : s[j] # ","
         IN  << SubSeq(s, 1, i - 1) >> \o split(SubSeq(s, i + 1, Len(s)))
    ELSE << s >>

\* input.split(',').filter_map(|s| s.trim().parse().ok()).collect::<HashSet<u32>>()
ParseSelection(input) ==
    LET pieces == split(input)
    IN  {parse(Trim(pieces[i])) : i \in 1..Len(pieces)} \ {ParseErr}

\* a subset test that accepts everything
is_subset_always(a, b) == TRUE

\* HashSet::is_subset
is_subset(a, b) == a \subseteq b

-----------------------------------------------------------------------------
(* main()                                                                  *)

Init ==
    /\ questions \in Banks
    /\ pc = "select"
    /\ line = << >>
    /\ selected_chapters = {}
    /\ all_questions = << >>
    /\ range_end = 0
    /\ score = 0
    /\ question_count = 0
    /\ is_correct = FALSE
    /\ presented = << >>
    /\ graded_true = 0
    /\ size_all = FALSE
    /\ printed = "nothing"

\* top of the selection loop: print the chapters, read the selection
PromptChapters ==
    /\ pc = "select"
    /\ \E l \in StringsUpTo(SelChars, MaxSelLen) : line' = l
    /\ pc' = "check"
    /\ UNCHANGED << questions, selected_chapters, all_questions, range_end, score,
                    question_count, is_correct, presented, graded_true, size_all >>
    /\ printed' = "chapters"

\* a loop body that also complains when no token is a number
CheckSelection_reject_empty ==
    /\ pc = "check"
    /\ LET input == get_user_input(line)
       IN  IF input = << "a" >>
           THEN /\ selected_chapters' = available_chapters
                /\ pc' = "size"
                /\ UNCHANGED printed
           ELSE IF \/ ~is_subset(ParseSelection(input), available_chapters)
                   \/ ParseSelection(input) = {}
                THEN /\ UNCHANGED selected_chapters
                     /\ printed' = "invalid"
                     /\ pc' = "select"
                ELSE /\ selected_chapters' = ParseSelection(input)
                     /\ pc' = "size"
                     /\ UNCHANGED printed
    /\ line' = << >>
    /\ UNCHANGED << questions, all_questions, range_end, score, question_count,
                    is_correct, presented, graded_true, size_all >>

\* a loop body that also complains when a token does not parse
CheckSelection_reprompt_on_dropped ==
    /\ pc = "check"
    /\ LET input == get_user_input(line)
           pieces == split(input)
       IN  IF input = << "a" >>
           THEN /\ selected_chapters' = available_chapters
                /\ pc' = "size"
                /\ UNCHANGED printed
           ELSE IF \/ ~is_subset(ParseSelection(input), available_chapters)
                   \/ \E i \in 1..Len(pieces) : parse(Trim(pieces[i])) = ParseErr
                THEN /\ UNCHANGED selected_chapters
                     /\ printed' = "invalid"
                     /\ pc' = "select"
                ELSE /\ selected_chapters' = ParseSelection(input)
                     /\ pc' = "size"
                     /\ UNCHANGED printed
    /\ line' = << >>
    /\ UNCHANGED << questions, all_questions, range_end, score, question_count,
                    is_correct, presented, graded_true, size_all >>

\* rest of the loop body: break with a set, or complain and continue
CheckSelection ==
    /\ pc = "check"
    /\ LET input == get_user_input(line)
       IN  IF input = << "a" >>
           THEN /\ selected_chapters' = available_chapters
                /\ pc' = "size"
                /\ UNCHANGED printed
           ELSE IF ~is_subset(ParseSelection(input), available_chapters)
                THEN /\ UNCHANGED selected_chapters
                     /\ printed' = "invalid"
                     /\ pc' = "select"
                ELSE /\ selected_chapters' = ParseSelection(input)
                     /\ pc' = "size"
                     /\ UNCHANGED printed
    /\ line' = << >>
    /\ UNCHANGED << questions, all_questions, range_end, score, question_count,
                    is_correct, presented, graded_true, size_all >>

\* the size prompt
ReadSize ==
    /\ pc = "size"
    /\ \E l \in StringsUpTo(SizeChars, MaxSizeLen) : line' = l
    /\ pc' = "assemble"
    /\ UNCHANGED << questions, selected_chapters, all_questions, range_end, score,
                    question_count, is_correct, presented, graded_true, size_all >>
    /\ printed' = "size"

\* the loop over questions.chapters
AssemblePool ==
    /\ pc = "assemble"
    /\ IF AssemblePanics(questions, selected_chapters)
       THEN pc' = "panicked" /\ UNCHANGED all_questions
       ELSE pc' = "range" /\ all_questions' = WithIds(Assemble(questions, selected_chapters))
    /\ UNCHANGED << questions, line, selected_chapters, range_end, score,
                    question_count, is_correct, presented, graded_true, size_all >>
    /\ UNCHANGED printed

\* a range selection that shuffles in both arms
SelectRange_shuffle_always ==
    /\ pc = "range"
    /\ LET input == get_user_input(line)
       IN  /\ all_questions' \in Shuffles(all_questions)
           /\ IF input = << "a" >>
              THEN range_end' = Len(all_questions) /\ size_all' = TRUE
              ELSE range_end' = unwrap_or(parse(Trim(input)), 5) /\ size_all' = FALSE
    /\ pc' = "slice"
    /\ UNCHANGED << questions, line, selected_chapters, score, question_count,
                    is_correct, presented, graded_true >>
    /\ UNCHANGED printed

\* let range = ...; input is the trimmed line of the size prompt
SelectRange ==
    /\ pc = "range"
    /\ LET input == get_user_input(line)
       IN  IF input = << "a" >>
           THEN /\ range_end' = Len(all_questions)
                /\ size_all' = TRUE
                /\ UNCHANGED all_questions
           ELSE /\ all_questions' \in Shuffles(all_questions)
                /\ range_end' = unwrap_or(parse(Trim(input)), 5)
                /\ size_all' = FALSE
    /\ pc' = "slice"
    /\ UNCHANGED << questions, line, selected_chapters, score, question_count,
                    is_correct, presented, graded_true >>
    /\ UNCHANGED printed

\* a slice that clamps the end of the range to the length of the pool
Slice_clamped ==
    /\ pc = "slice"
    /\ pc' = "quiz"
    /\ range_end' = IF range_end > Len(all_questions) THEN Len(all_questions) ELSE range_end
    /\ score' = 0
    /\ question_count' = 0
    /\ line' = << >>
    /\ UNCHANGED << questions, selected_chapters, all_questions,
                    is_correct, presented, graded_true, size_all >>
    /\ UNCHANGED printed

\* let mut score = 0; let mut question_count = 0; all_questions[range.clone()];
\* the size input is not used again
Slice ==
    /\ pc = "slice"
    /\ pc' = IF range_end > Len(all_questions) THEN "panicked" ELSE "quiz"
    /\ score' = 0
    /\ question_count' = 0
    /\ line' = << >>
    /\ UNCHANGED << questions, selected_chapters, all_questions, range_end,
                    is_correct, presented, graded_true, size_all >>
    /\ UNCHANGED printed

\* the item the quiz loop is at, once question_count is incremented
CurrentQuestion == all_questions[question_count]

\* one quiz loop iteration up to the is_correct that ask() computes from the
\* line it reads; ask() may panic instead
Ask ==
    /\ pc = "quiz"
    /\ question_count < range_end
    /\ question_count' = question_count + 1
    /\ presented' = Append(presented, all_questions[question_count + 1].id)
    /\ LET question == all_questions[question_count + 1]
       IN  \E l \in AnswerLines(question.kind) :
            /\ line' = l
            /\ \/ /\ ask_may_panic(question, l)
                  /\ pc' = "panicked"
                  /\ UNCHANGED << is_correct, graded_true >>
               \/ /\ is_correct' = ask(question, l)
                  /\ graded_true' = IF ask(question, l) THEN graded_true + 1 ELSE graded_true
                  /\ pc' = "graded"
    /\ UNCHANGED << questions, selected_chapters, all_questions, range_end, score, size_all >>
    /\ printed' = "question"

\* a loop body that counts every question as correct
Return_always_increment ==
    /\ pc = "graded"
    /\ score' = score + 1
    /\ is_correct' = FALSE
    /\ line' = << >>
    /\ pc' = "quiz"
    /\ UNCHANGED << questions, selected_chapters, all_questions, range_end,
                    question_count, presented, graded_true, size_all >>
    /\ printed' = "result"

\* print_result, ask() returns is_correct and its locals are gone, the loop
\* body adds the returned value to the score
Return ==
    /\ pc = "graded"
    /\ score' = IF is_correct THEN score + 1 ELSE score
    /\ is_correct' = FALSE
    /\ line' = << >>
    /\ pc' = "quiz"
    /\ UNCHANGED << questions, selected_chapters, all_questions, range_end,
                    question_count, presented, graded_true, size_all >>
    /\ printed' = "result"

\* the loop is over: print the summary
Summary ==
    /\ pc = "quiz"
    /\ question_count = range_end
    /\ pc' = "ack"
    /\ UNCHANGED << questions, line, selected_chapters, all_questions, range_end,
                    score, question_count, is_correct, presented, graded_true, size_all >>
    /\ printed' = "summary"

\* the final get_user_input
Acknowledge ==
    /\ pc = "ack"
    /\ \E l \in AckLines : line' = l
    /\ pc' = "done"
    /\ UNCHANGED << questions, selected_chapters, all_questions, range_end, score,
                    question_count, is_correct, presented, graded_true, size_all >>
    /\ UNCHANGED printed

Next ==
    \/ PromptChapters
    \/ CheckSelection
    \/ ReadSize
    \/ AssemblePool
    \/ SelectRange
    \/ Slice
    \/ Ask
    \/ Return
    \/ Summary
    \/ Acknowledge

Spec == Init /\ [][Next]_vars

\* main() is one sequential thread: from the slice on it takes its next step
\* whenever it has one, and the read_line of an ask() or of the final
\* get_user_input returns once the user has answered the prompt
FairSpec ==
    /\ Spec
    /\ WF_vars(Slice)
    /\ WF_vars(Ask)
    /\ WF_vars(Return)
    /\ WF_vars(Summary)
    /\ WF_vars(Acknowledge)

-----------------------------------------------------------------------------
(* What the pool is expected to hold, counted from the bank.               *)

RECURSIVE PairsUpTo(_, _)
\* the number of pairs of the first m matching questions
PairsUpTo(matchings, m) ==
    IF m = 0 THEN 0 ELSE PairsUpTo(matchings, m - 1) + Len(matchings[m].pairs)

ChapterSize(ch) ==
    Len(ch.multiple_choice) + PairsUpTo(ch.matching, Len(ch.matching))
        + Len(ch.fill_in_the_blanks) + Len(ch.spelling)

RECURSIVE ItemsBefore(_)
\* the number of pool items that come from selected chapters before the c-th
ItemsBefore(c) ==
    IF c <= 1 THEN 0
    ELSE ItemsBefore(c - 1)
         + (IF questions[c - 1].chapter \in selected_chapters
            THEN ChapterSize(questions[c - 1]) ELSE 0)

ExpectedPoolSize == ItemsBefore(Len(questions) + 1)

\* where the items of the m-th matching question of the c-th chapter start
MatchingOffset(c, m) ==
    ItemsBefore(c) + Len(questions[c].multiple_choice)
        + PairsUpTo(questions[c].matching, m - 1)

SelectedChapterIndexes ==
    {c \in 1..Len(questions) : questions[c].chapter \in selected_chapters}

DistinctTerms(pairs) ==
    \A i, j \in 1..Len(pairs) : pairs[i].term = pairs[j].term => i = j

-----------------------------------------------------------------------------
(* C1: when the pairs of a matching question of a selected chapter have     *)
(* pairwise different terms, the assembled pool holds, one after the other  *)
(* in pair order, one SingleMatchingQuestion per pair: the i-th has the     *)
(* i-th term, all the definitions in pair order, and the i-th definition as *)
(* its correct answer.                                                      *)
C1_MatchingExpansion ==
    pc = "range" =>
        \A c \in SelectedChapterIndexes :
            \A m \in 1..Len(questions[c].matching) :
                LET pairs == questions[c].matching[m].pairs
                    n == Len(pairs)
                    off == MatchingOffset(c, m)
                IN  DistinctTerms(pairs) =>
                        /\ off + n <= Len(all_questions)
                        /\ \A i \in 1..n :
                            LET item == all_questions[off + i]
                            IN  /\ item.kind = "SingleMatchingQuestion"
                                /\ item.q.term = pairs[i].term
                                /\ Len(item.q.definition) = n
                                /\ \A k \in 1..n : item.q.definition[k] = pairs[k].definition
                                /\ item.q.correct_answer = pairs[i].definition

\* the 3-pair question has been expanded: its second item is in the pool
C1_Witness ==
    /\ pc = "range"
    /\ \E i \in 1..Len(all_questions) :
        /\ all_questions[i].kind = "SingleMatchingQuestion"
        /\ all_questions[i].q.term = "t2"
        /\ all_questions[i].q.correct_answer = "d2"
        /\ all_questions[i].q.definition = << "d1", "d2", "d3" >>

-----------------------------------------------------------------------------
(* Lines, as the claims describe them.                                     *)

IsNumber(s) == s # << >> /\ \A i \in 1..Len(s) : IsDigit(s[i])

\* a line that names no position of a list of n definitions
InvalidIndex(l, n) ==
    LET t == Trim(l)
    IN  \/ ~IsNumber(t)
        \/ DecimalValue(t) = 0
        \/ DecimalValue(t) > n

\* the line is the character ch, with nothing but whitespace around it
IsExactlyChar(l, ch) ==
    \E i \in 1..Len(l) :
        /\ l[i] = ch
        /\ \A j \in 1..Len(l) : j # i => l[j] \in White

\* lower case of a letter, the accented letters of TextChars included
LetterLower(c) == IF c = "U+00C9" THEN "U+00E9" ELSE to_ascii_lowercase(c)

\* a and b differ at most in letter case and in leading and trailing whitespace
SameUpToCaseAndSpace(a, b) ==
    LET x == Trim(a)
        y == Trim(b)
    IN  /\ Len(x) = Len(y)
        /\ \A i \in 1..Len(x) : LetterLower(x[i]) = LetterLower(y[i])

\* a and b differ at most in the case of ASCII letters
AsciiCaseEqual(a, b) ==
    /\ Len(a) = Len(b)
    /\ \A i \in 1..Len(a) :
        \/ a[i] = b[i]
        \/ \E k \in 1..26 : {a[i], b[i]} = {AsciiUpper[k], AsciiLower[k]}

IsTextQuestion(item) == item.kind \in {"FillInTheBlankQuestion", "SpellingQuestion"}

\* an ask() was abandoned by a panic
AskAborted == pc = "panicked" /\ question_count > 0

-----------------------------------------------------------------------------
(* C2, as claimed: a SingleMatchingQuestion grades every answer that is    *)
(* non-numeric, empty, "0" or greater than the number of definitions as    *)
(* incorrect, and no ask() aborts the session.                             *)
C2_InvalidIndexIsIncorrect ==
    /\ ~AskAborted
    /\ (pc = "graded" /\ CurrentQuestion.kind = "SingleMatchingQuestion"
            /\ InvalidIndex(line, Len(CurrentQuestion.q.definition)))
        => ~is_correct

-----------------------------------------------------------------------------
(* C3: a MultipleChoiceQuestion is graded correct exactly when the line,   *)
(* leading and trailing whitespace aside, is the one answer character, in   *)
(* the same case.                                                          *)
C3_MultipleChoiceExact ==
    (pc = "graded" /\ CurrentQuestion.kind = "MultipleChoiceQuestion")
        => (is_correct <=> IsExactlyChar(line, CurrentQuestion.q.answer))

\* answer 'b', input "B": graded incorrect
C3_Witness ==
    /\ pc = "graded"
    /\ CurrentQuestion.kind = "MultipleChoiceQuestion"
    /\ CurrentQuestion.q.answer = "b"
    /\ line = << "B" >>
    /\ ~is_correct

-----------------------------------------------------------------------------
(* C4, as claimed: a FillInTheBlankQuestion or SpellingQuestion grades     *)
(* correct every line that differs from the expected answer only in letter *)
(* case or in leading or trailing whitespace.                              *)
C4_CaseAndSpaceInsensitive ==
    (pc = "graded" /\ IsTextQuestion(CurrentQuestion)
            /\ SameUpToCaseAndSpace(line, CurrentQuestion.q.answer))
        => is_correct

(* C4, amended: a FillInTheBlankQuestion or SpellingQuestion is graded     *)
(* correct exactly when the line, its own leading and trailing whitespace  *)
(* removed, differs from the expected answer at most in the case of ASCII  *)
(* letters; nothing else of the question, the options included, matters.   *)
C4_AsciiCaseInsensitive ==
    (pc = "graded" /\ IsTextQuestion(CurrentQuestion))
        => (is_correct <=> AsciiCaseEqual(Trim(line), CurrentQuestion.q.answer))

\* expected "A", input " a": other case, leading whitespace, graded correct
C4_Witness ==
    /\ pc = "graded"
    /\ CurrentQuestion.kind = "SpellingQuestion"
    /\ CurrentQuestion.q.answer = << "A" >>
    /\ line = << " ", "a" >>
    /\ is_correct

-----------------------------------------------------------------------------
(* C5: once the selection loop has exited, every selected chapter id is    *)
(* the id of a chapter of the bank.                                        *)
C5_SelectedInBank ==
    pc \notin {"select", "check"} =>
        \A id \in selected_chapters : \E c \in 1..Len(questions) : questions[c].chapter = id

\* the loop has exited with one of the two chapters of a bank
C5_Witness ==
    /\ pc = "size"
    /\ Len(questions) = 2
    /\ selected_chapters = {2}

-----------------------------------------------------------------------------
(* C6: the assembled pool holds the selected chapters in bank order; of    *)
(* each chapter first the multiple-choice questions, then the items of each *)
(* matching question (questions in order, pairs in order), then the        *)
(* fill-in-the-blank questions, then the spelling questions.                *)
C6_PoolOrder ==
    pc = "range" =>
        /\ Len(all_questions) = ExpectedPoolSize
        /\ \A c \in SelectedChapterIndexes :
            LET ch == questions[c]
                mcAt == ItemsBefore(c)
                fillAt == MatchingOffset(c, Len(ch.matching) + 1)
                spellAt == fillAt + Len(ch.fill_in_the_blanks)
            IN  /\ \A i \in 1..Len(ch.multiple_choice) :
                    /\ all_questions[mcAt + i].kind = "MultipleChoiceQuestion"
                    /\ all_questions[mcAt + i].q = ch.multiple_choice[i]
                    /\ all_questions[mcAt + i].chapter = ch.chapter
                /\ \A m \in 1..Len(ch.matching) :
                    \A i \in 1..Len(ch.matching[m].pairs) :
                        LET item == all_questions[MatchingOffset(c, m) + i]
                        IN  /\ item.kind = "SingleMatchingQuestion"
                            /\ item.q.term = ch.matching[m].pairs[i].term
                            /\ Len(item.q.definition) = Len(ch.matching[m].pairs)
                            /\ \A k \in 1..Len(ch.matching[m].pairs) :
                                item.q.definition[k] = ch.matching[m].pairs[k].definition
                            /\ item.chapter = ch.chapter
                /\ \A i \in 1..Len(ch.fill_in_the_blanks) :
                    /\ all_questions[fillAt + i].kind = "FillInTheBlankQuestion"
                    /\ all_questions[fillAt + i].q = ch.fill_in_the_blanks[i]
                    /\ all_questions[fillAt + i].chapter = ch.chapter
                /\ \A i \in 1..Len(ch.spelling) :
                    /\ all_questions[spellAt + i].kind = "SpellingQuestion"
                    /\ all_questions[spellAt + i].q = ch.spelling[i]
                    /\ all_questions[spellAt + i].chapter = ch.chapter

\* a pool with all four kinds of question has been assembled
C6_Witness ==
    /\ pc = "range"
    /\ \A kind \in {"MultipleChoiceQuestion", "SingleMatchingQuestion",
                    "FillInTheBlankQuestion", "SpellingQuestion"} :
        \E i \in 1..Len(all_questions) : all_questions[i].kind = kind

-----------------------------------------------------------------------------
(* The quiz run, as the claims describe it.                                *)

\* the pool as first assembled; an item's id is its position in it
AssembledPool == WithIds(Assemble(questions, selected_chapters))

\* main() is at or past the slice that starts the quiz loop, and has not panicked
Running == pc \in {"quiz", "graded", "ack", "done"}

Finished == pc \in {"ack", "done"}

-----------------------------------------------------------------------------
(* C7: when the size input is "a", the pool is neither shuffled nor        *)
(* truncated: the items are presented in the order of their assembly, and  *)
(* a run that reaches the summary has presented every one of them.         *)
C7_SelectAllWholePool ==
    /\ pc = "slice" => (size_all <=> Trim(line) = << "a" >>)
    /\ (size_all /\ (Running \/ pc \in {"slice", "panicked"})) =>
        /\ range_end = ExpectedPoolSize
        /\ Len(all_questions) = ExpectedPoolSize
        /\ \A i \in 1..Len(all_questions) : all_questions[i].id = i
        /\ \A i \in 1..Len(presented) : presented[i] = i
        /\ Finished => Len(presented) = ExpectedPoolSize

\* a select-all run over a pool of at least three items has reached its end
C7_Witness ==
    /\ size_all
    /\ pc = "done"
    /\ Len(presented) >= 3

-----------------------------------------------------------------------------
(* C8: when the size input is not "a" and the count does not exceed the    *)
(* pool, whatever the shuffle did: the count items that make up the run    *)
(* are items of the assembled pool, no item among them twice; the item     *)
(* being presented is the next of them, and a run that reaches the summary *)
(* has presented exactly as many items as the count; a numeric input is    *)
(* its own count.                                                          *)
C8_NumericCount ==
    /\ (pc = "slice" /\ ~size_all /\ IsNumber(Trim(line))) => range_end = DecimalValue(Trim(line))
    /\ (pc = "slice" /\ ~size_all /\ range_end <= Len(all_questions)) =>
        LET pool == AssembledPool
        IN  \A i \in 1..range_end :
                /\ all_questions[i].id \in 1..Len(pool)
                /\ all_questions[i] = pool[all_questions[i].id]
    /\ (pc = "graded" /\ ~size_all) => CurrentQuestion = AssembledPool[CurrentQuestion.id]
    /\ (~size_all /\ Running) =>
        /\ range_end <= ExpectedPoolSize
        /\ \A i, j \in 1..range_end : all_questions[i].id = all_questions[j].id => i = j
        /\ Len(presented) <= range_end
        /\ \A i \in 1..Len(presented) :
            /\ presented[i] = all_questions[i].id
            /\ presented[i] \in 1..ExpectedPoolSize
        /\ Finished => Len(presented) = range_end

\* a run of 2 out of at least 3 items has reached its end, and presented
\* them in another order than that of their assembly
C8_Witness ==
    /\ ~size_all
    /\ pc = "done"
    /\ range_end = 2
    /\ Len(all_questions) >= 3
    /\ Len(presented) = 2
    /\ presented[1] > presented[2]

-----------------------------------------------------------------------------
(* C9: during the quiz run the score is the number of items whose ask()    *)
(* has returned true, 0 <= score <= items presented so far <= total; at    *)
(* the summary the question count is the total of the progress indicator   *)
(* and the score is the number of items graded correct.                    *)
C9_Score ==
    /\ Running =>
        /\ score = graded_true - (IF pc = "graded" /\ is_correct THEN 1 ELSE 0)
        /\ 0 <= score
        /\ score <= question_count
        /\ question_count = Len(presented)
        /\ question_count <= range_end
    /\ Finished =>
        /\ question_count = range_end
        /\ score = graded_true

\* a run of three items, one of them graded correct, is at its summary
C9_Witness ==
    /\ pc = "ack"
    /\ range_end = 3
    /\ score = 1

-----------------------------------------------------------------------------
(* C11: every item of the pool carries the id of a selected chapter; in    *)
(* the assembled pool every position lies in the block of one selected     *)
(* chapter of the bank and carries that chapter's id, and the pool is as   *)
(* long as the selected chapters have multiple-choice questions, matching  *)
(* pairs, fill-in-the-blank questions and spelling questions together.     *)
(* With chapter 1 (2 multiple-choice questions) and chapter 2 (one         *)
(* matching question of 3 pairs), selecting chapter 2 and size "a" runs    *)
(* exactly 3 items, all of chapter 2.                                      *)
C11_PoolTaggedAndCounted ==
    /\ \A i \in 1..Len(all_questions) : all_questions[i].chapter \in selected_chapters
    /\ pc = "range" =>
        /\ Len(all_questions) = ExpectedPoolSize
        /\ \A i \in 1..Len(all_questions) :
            \E c \in SelectedChapterIndexes :
                /\ ItemsBefore(c) < i
                /\ i <= ItemsBefore(c + 1)
                /\ all_questions[i].chapter = questions[c].chapter
    /\ (questions = Bank1 /\ selected_chapters = {2} /\ size_all /\ Finished) =>
        /\ question_count = 3
        /\ Len(all_questions) = 3
        /\ \A i \in 1..3 : all_questions[i].chapter = 2

\* the run of the example has reached its end
C11_Witness ==
    /\ questions = Bank1
    /\ selected_chapters = {2}
    /\ size_all
    /\ pc = "done"
    /\ Len(presented) = 3

-----------------------------------------------------------------------------
(* C12: a SingleMatchingQuestion with n definitions, answered with a line  *)
(* that is the number k, 1 <= k <= n, whitespace around it aside, is       *)
(* graded, and graded correct exactly when the k-th definition shown is    *)
(* equal to the correct definition of the term.                            *)
C12_ValidIndexGraded ==
    (pc \in {"graded", "panicked"} /\ question_count > 0
            /\ CurrentQuestion.kind = "SingleMatchingQuestion"
            /\ IsNumber(Trim(line))
            /\ DecimalValue(Trim(line)) \in 1..Len(CurrentQuestion.q.definition))
        => /\ pc = "graded"
           /\ is_correct <=>
                CurrentQuestion.q.definition[DecimalValue(Trim(line))]
                    = CurrentQuestion.q.correct_answer

\* the term of the first of two pairs with the same definition, answered
\* with the position of the second: graded correct
C12_Witness ==
    /\ pc = "graded"
    /\ CurrentQuestion.kind = "SingleMatchingQuestion"
    /\ CurrentQuestion.q.term = "t1"
    /\ CurrentQuestion.q.definition = << "d1", "d1" >>
    /\ Trim(line) = << "2" >>
    /\ is_correct

-----------------------------------------------------------------------------
(* The selection line, as the claims describe it.                          *)

\* the pieces of the line between its commas
Tokens(l) ==
    LET Bounds == {ab \in (1..(Len(l) + 1)) \X (0..Len(l)) :
                    /\ ab[1] <= ab[2] + 1
                    /\ \A k \in ab[1]..ab[2] : l[k] # ","
                    /\ ab[1] = 1 \/ l[ab[1] - 1] = ","
                    /\ ab[2] = Len(l) \/ l[ab[2] + 1] = ","}
    IN  {SubSeq(l, ab[1], ab[2]) : ab \in Bounds}

\* the numbers that occur as a token of the line, whitespace around them aside
IdsTyped(l) ==
    {DecimalValue(Trim(t)) : t \in {u \in Tokens(l) : IsNumber(Trim(u))}}

\* the ids of the chapters of the bank
BankIds == {questions[c].chapter : c \in 1..Len(questions)}

-----------------------------------------------------------------------------
(* C13: one pass of the selection loop never aborts. On the line "a" it    *)
(* leaves the loop with the ids of all chapters of the bank. On any other  *)
(* line the tokens that are not a number are dropped, and the loop         *)
(* complains and prompts again exactly when one of the remaining numbers   *)
(* is not the id of a chapter of the bank; otherwise it leaves the loop    *)
(* with exactly the set of these numbers.                                  *)
C13_SelectionLoop ==
    [][pc = "check" =>
        IF IsExactlyChar(line, "a")
        THEN pc' = "size" /\ selected_chapters' = BankIds
        ELSE /\ pc' \in {"select", "size"}
             /\ pc' = "select" <=> ~(IdsTyped(line) \subseteq BankIds)
             /\ pc' = "select" =>
                    printed' = "invalid" /\ selected_chapters' = selected_chapters
             /\ pc' = "size" => selected_chapters' = IdsTyped(line)]_vars

\* the loop has complained and is about to prompt again
C13_Witness ==
    /\ pc = "select"
    /\ printed = "invalid"

-----------------------------------------------------------------------------
(* The size line, as the claims describe it.                               *)

\* the line is neither "a" nor a number, whitespace around it aside
NoCount(l) == ~IsExactlyChar(l, "a") /\ ~IsNumber(Trim(l))

\* v holds the items of the pool w, each of them once
IsShuffleOf(v, w) ==
    /\ Len(v) = Len(w)
    /\ \A i \in 1..Len(v) : v[i].id \in 1..Len(w) /\ v[i] = w[v[i].id]
    /\ \A i, j \in 1..Len(v) : v[i].id = v[j].id => i = j

-----------------------------------------------------------------------------
(* C14: a size line that is neither "a" nor a number makes the count 5:    *)
(* the pool goes through the shuffle, which keeps its items; when the pool *)
(* holds at least 5 items the quiz loop starts over the first 5 of them,   *)
(* with total 5, and a run that reaches the summary has presented exactly  *)
(* 5 items, no item twice; the size prompt is never printed a second time. *)
C14_DefaultCount ==
    /\ [](pc = "slice" /\ NoCount(line) =>
            /\ range_end = 5
            /\ ~size_all
            /\ IsShuffleOf(all_questions, AssembledPool))
    /\ []((Running /\ ~size_all /\ range_end = 5) =>
            /\ Len(presented) <= 5
            /\ \A i, j \in 1..Len(presented) : presented[i] = presented[j] => i = j
            /\ Finished => Len(presented) = 5 /\ question_count = 5)
    /\ [][/\ (pc = "slice" /\ NoCount(line) /\ Len(all_questions) >= 5) =>
                /\ pc' = "quiz"
                /\ range_end' = 5
                /\ all_questions' = all_questions
          /\ pc' = "size" => pc = "check"
          /\ pc = "size" => pc' = "assemble"]_vars

\* the size line "aa" has made the count 5 and the pool of 5 items has come
\* out of the shuffle in another order
C14_Witness ==
    /\ pc = "slice"
    /\ line = << "a", "a" >>
    /\ range_end = 5
    /\ Len(all_questions) = 5
    /\ all_questions[1].id # 1

-----------------------------------------------------------------------------
(* C15: the count taken from the size line (the number typed, or 5 for a   *)
(* line that is neither "a" nor a number) is kept as it is even when it is *)
(* greater than the pool; the slice then aborts the session: no question   *)
(* has been presented, no summary is printed, nothing is read again, and   *)
(* the quiz loop never runs with a count greater than the pool.            *)
C15_CountBeyondPoolAborts ==
    /\ []((pc = "slice" /\ ~IsExactlyChar(line, "a")) =>
            range_end = IF IsNumber(Trim(line)) THEN DecimalValue(Trim(line)) ELSE 5)
    /\ [](Running => range_end <= Len(all_questions))
    /\ []((pc = "panicked" /\ question_count = 0) =>
            /\ range_end > Len(all_questions)
            /\ presented = << >>
            /\ printed = "size")
    /\ [][/\ (pc = "slice" /\ range_end > Len(all_questions)) =>
                /\ pc' = "panicked"
                /\ range_end' = range_end
                /\ presented' = << >>
                /\ printed' = printed
          /\ pc # "panicked"]_vars

\* the default count 5 has met a pool of fewer than 5 items
C15_Witness ==
    /\ pc = "panicked"
    /\ range_end = 5
    /\ Len(all_questions) \in 1..4
    /\ presented = << >>

-----------------------------------------------------------------------------
(* C16: a selection line other than "a" none of whose tokens is a number,  *)
(* the empty line included, leaves the selection loop at once with the     *)
(* empty set, without a complaint. The pool is then empty; with the size   *)
(* line "a" the count is 0, no question is presented, the summary reports  *)
(* 0 correct out of 0, and the session reaches its normal end after the    *)
(* acknowledgment has been read.                                           *)
C16_EmptySelection ==
    /\ [][(pc = "check" /\ ~IsExactlyChar(line, "a") /\ IdsTyped(line) = {}) =>
            /\ pc' = "size"
            /\ selected_chapters' = {}
            /\ printed' = printed]_vars
    /\ []((selected_chapters = {} /\ pc \notin {"select", "check"}) =>
            /\ all_questions = << >>
            /\ size_all =>
                /\ pc # "panicked"
                /\ range_end = 0
                /\ presented = << >>
                /\ score = 0
                /\ question_count = 0
                /\ printed \in {"size", "summary"}
                /\ Finished => printed = "summary")
    /\ (selected_chapters = {} /\ size_all /\ pc = "slice") ~> (pc = "done")

\* the session over the empty selection has come to its normal end
C16_Witness ==
    /\ pc = "done"
    /\ selected_chapters = {}
    /\ size_all
    /\ printed = "summary"
    /\ score = 0
    /\ question_count = 0

-----------------------------------------------------------------------------
(* The session from the slice on, as the claims describe it.               *)

\* the selection and a size that does not exceed the pool have been accepted
Accepted == pc = "slice" /\ range_end <= Len(all_questions)

\* the steps of the session are taken in the one order the description allows
SessionOrder ==
    /\ pc' = "size" => pc = "check"
    /\ pc = "size" => pc' = "assemble"
    /\ pc = "quiz" =>
        \/ /\ pc' = "ack"
           /\ question_count = range_end
           /\ printed' = "summary"
           /\ UNCHANGED << question_count, presented, score >>
        \/ /\ pc' \in {"graded", "panicked"}
           /\ question_count' = question_count + 1
           /\ question_count' <= range_end
           /\ presented' = Append(presented, all_questions[question_count'].id)
    /\ pc = "graded" => pc' = "quiz" /\ UNCHANGED << question_count, presented >>
    /\ pc' = "ack" => pc = "quiz"
    /\ pc = "ack" => pc' = "done" /\ UNCHANGED << question_count, presented, score >>
    /\ pc # "done"

-----------------------------------------------------------------------------
(* C17, as claimed: once the selection and a size that does not exceed the *)
(* pool are accepted, the size prompt is never printed again, the items of *)
(* the final sequence are presented one by one in sequence order with the  *)
(* progress index going up by one, no item twice and none left out, then   *)
(* the summary is printed and one acknowledgment is read; and when every   *)
(* prompt is answered the session comes to this end.                       *)
C17_RunsToTheEnd ==
    /\ [][SessionOrder]_vars
    /\ [](Running =>
            /\ question_count = Len(presented)
            /\ \A i \in 1..Len(presented) : presented[i] = all_questions[i].id
            /\ \A i, j \in 1..Len(presented) : presented[i] = presented[j] => i = j)
    /\ Accepted ~> (pc = "done" /\ Len(presented) = range_end /\ printed = "summary")

-----------------------------------------------------------------------------
(* C18: when the pool is assembled, for every matching question of the    *)
(* bank, one without pairs included, the lookup of the term of each of its *)
(* pairs in its own pair list finds a pair, at that pair's position or     *)
(* before it; the assembly always completes, and the session aborts only   *)
(* at the slice or inside an ask().                                        *)
C18_AssemblyNeverAborts ==
    /\ [](pc = "assemble" =>
            \A c \in 1..Len(questions) :
                \A m \in 1..Len(questions[c].matching) :
                    LET pairs == questions[c].matching[m].pairs
                    IN  \A i \in 1..Len(pairs) :
                            /\ ~new_panics(pairs[i].term, pairs)
                            /\ find(pairs, pairs[i].term) \in 1..i)
    /\ [](pc = "panicked" => (question_count > 0 \/ range_end > Len(all_questions)))
    /\ [][pc = "assemble" => pc' = "range" /\ Len(all_questions') = ExpectedPoolSize]_vars

\* the pool of a chapter with a matching question without pairs between two
\* others has been assembled
C18_Witness ==
    /\ pc = "range"
    /\ \E c \in 1..Len(questions) :
        /\ questions[c].chapter \in selected_chapters
        /\ \E m \in 1..Len(questions[c].matching) : questions[c].matching[m].pairs = << >>
    /\ Len(all_questions) = 3

-----------------------------------------------------------------------------
\* the least position of a pair with that term
FirstWithTerm(pairs, term) ==
    LET S == {j \in 1..Len(pairs) : pairs[j].term = term}
    IN  CHOOSE j \in S : \A k \in S : j <= k

(* C19: a matching question of a selected chapter gives the pool one item  *)
(* per pair, in pair order, also when pairs share a term: the item of a    *)
(* pair has the term of that pair, and its correct answer is the           *)
(* definition of the first pair in pair order that has this term.          *)
C19_RepeatedTermTakesFirst ==
    pc = "range" =>
        \A c \in SelectedChapterIndexes :
            \A m \in 1..Len(questions[c].matching) :
                LET pairs == questions[c].matching[m].pairs
                    off == MatchingOffset(c, m)
                IN  /\ off + Len(pairs) = MatchingOffset(c, m + 1)
                    /\ off + Len(pairs) <= Len(all_questions)
                    /\ \A i \in 1..Len(pairs) :
                        LET item == all_questions[off + i]
                        IN  /\ item.kind = "SingleMatchingQuestion"
                            /\ item.q.term = pairs[i].term
                            /\ item.q.correct_answer
                                = pairs[FirstWithTerm(pairs, pairs[i].term)].definition

\* the pool holds the item of a pair whose term an earlier pair has too: its
\* correct answer is not the definition of its own pair
C19_Witness ==
    /\ pc = "range"
    /\ \E c \in SelectedChapterIndexes :
        \E m \in 1..Len(questions[c].matching) :
            LET pairs == questions[c].matching[m].pairs
            IN  \E i \in 1..Len(pairs) :
                    LET item == all_questions[MatchingOffset(c, m) + i]
                    IN  /\ FirstWithTerm(pairs, pairs[i].term) < i
                        /\ item.q.term = pairs[i].term
                        /\ item.q.correct_answer # pairs[i].definition
                        /\ item.q.correct_answer = pairs[1].definition

-----------------------------------------------------------------------------
(* The same selection typed another way.                                   *)

Reverse(v) == [i \in 1..Len(v) |-> v[Len(v) + 1 - i]]

RECURSIVE Join(_)
\* the pieces with a comma between each two of them
Join(pieces) ==
    IF Len(pieces) = 0 THEN << >>
    ELSE IF Len(pieces) = 1 THEN pieces[1]
    ELSE pieces[1] \o << "," >> \o Join(Tail(pieces))

\* the position in the bank of the chapter with that id
BankPosition(id) == CHOOSE c \in 1..Len(questions) : questions[c].chapter = id

-----------------------------------------------------------------------------
(* C20: the set the selection loop leaves with is the set of the numbers   *)
(* typed: the same tokens in reverse order, or with the first token typed  *)
(* once more, give the same set. The assembled pool is the one the bank    *)
(* and this set determine, and its items follow the order of the chapters  *)
(* in the bank, whatever the order in which the ids were typed.            *)
C20_PoolOfTheSet ==
    /\ [](pc = "check" /\ ~IsExactlyChar(line, "a") =>
            LET input == get_user_input(line)
                pieces == split(input)
            IN  /\ ParseSelection(Join(Reverse(pieces))) = ParseSelection(input)
                /\ ParseSelection(Join(pieces \o << pieces[1] >>)) = ParseSelection(input)
                /\ ParseSelection(input) = IdsTyped(line))
    /\ [][(pc = "check" /\ pc' = "size" /\ ~IsExactlyChar(line, "a")) =>
            selected_chapters' = IdsTyped(line)]_vars
    /\ [](pc = "range" =>
            /\ all_questions = AssembledPool
            /\ Len(all_questions) = ExpectedPoolSize
            /\ \A i, j \in 1..Len(all_questions) :
                i < j => BankPosition(all_questions[i].chapter)
                            <= BankPosition(all_questions[j].chapter))

\* both chapters of a bank that holds chapter 2 before chapter 1 are
\* selected: the pool starts with chapter 2 and ends with chapter 1
C20_Witness ==
    /\ pc = "range"
    /\ selected_chapters = {1, 2}
    /\ questions[1].chapter = 2
    /\ all_questions[1].chapter = 2
    /\ all_questions[Len(all_questions)].chapter = 1

====
